---- MODULE Spec2Model ----
(***************************************************************************)
(* Transcription job pipeline of ambient-provider.                         *)
(*                                                                         *)
(* One transcription job is followed from the moment it sits on the work   *)
(* queue: the ARQ worker delivers it (at most max_tries times), an attempt *)
(* runs the five pipeline steps await by await, any await may raise or be  *)
(* cancelled by the job timeout, and the Result Consumer reconciles        *)
(* messages of the result stream into the same rows, cache key and         *)
(* channel.  Two implementations of the attempt exist in the repository:   *)
(* TranscriptionJobProcessor.process (workers/job_processor.py) and the    *)
(* function registered with the worker, process_transcription_job          *)
(* (workers/transcription.py).  They share most awaits; impl says which    *)
(* one runs and the places where they differ test it.                      *)
(***************************************************************************)
EXTENDS Integers, Sequences, FiniteSets, TLC

(* ---------------------------- bounds ----------------------------------- *)
\* number of result-stream messages the Result Consumer receives for the job
MaxResultMsgs == 1
\* number of live-update streams opened for the job
MaxSubscribers == 2

\* messages published on the channel of a job while one subscription lasts
MaxPublished == 3

\* segments in a response of the Riva engine
MaxRivaSegments == 3
MaxRaising == 2

(* ------------------------ program constants ---------------------------- *)
max_tries == 3

\* WorkerSettings.max_jobs: jobs one worker runs concurrently
max_jobs == 10

\* jobs waiting on the shared queue of the pool
PoolJobs == {"j1", "j2", "j3", "j4"}
max_retries == 3
AUDIO_DOWNLOAD_MAX_RETRIES == 10

Impls == {"processor", "inline"}
WorkerId == "w1"
Engine == "asr"

\* TranscriptionEngine: the supported engines
TranscriptionEngine == {"asr", "whisperx"}

\* engines a request or a work item may name
EngineNames == TranscriptionEngine \cup {"foo"}

\* longest list of segments the engine returns
MaxSegments == 2

\* TranscriptSegment: the attributes of a segment object in the order the
\* class declares them
SegmentFields == <<"start", "end", "text", "speaker_tag", "confidence">>

\* segment objects of the engine: one with every attribute set, one whose
\* optional speaker_tag and confidence are None
Segments == { <<"0.0", "1.5", "hello", "1", "0.9">>, <<"1.5", "2.0", "doctor", "None", "None">> }

RECURSIVE ListsUpTo(_)
ListsUpTo(n) ==
    IF n = 0 THEN { <<>> }
    ELSE ListsUpTo(n - 1)
         \cup { Append(l, s) : l \in { m \in ListsUpTo(n - 1) : Len(m) = n - 1 },
                               s \in Segments }

\* what the engine may return for an audio file
SegmentLists == ListsUpTo(MaxSegments)

\* what it returns for the audio of the job followed in the other
\* specifications
SampleSegments == <<<<"0.0", "1.5", "hello", "1", "0.9">>, <<"1.5", "2.0", "doctor", "None", "None">>>>

Attr(seg, f) == seg[CHOOSE k \in DOMAIN SegmentFields : SegmentFields[k] = f]

\* dict(exclude_none=True) in place of model_dump()
model_dump_exclude_none(seg) ==
    [f \in { g \in {SegmentFields[k] : k \in DOMAIN SegmentFields} :
                Attr(seg, g) # "None" } |-> Attr(seg, f)]

\* seg.model_dump(): the dict of every declared field, None included
model_dump(seg) ==
    [f \in {SegmentFields[k] : k \in DOMAIN SegmentFields} |-> Attr(seg, f)]

\* the list comprehension before update_segments: one dict per segment, in
\* the order of the engine's list
segments_dict(segs) == [k \in DOMAIN segs |-> model_dump(segs[k])]

\* the TranscriptionResult the engine hands back
transcribe(segs) == [segments |-> segs, duration |-> "d1", speaker_roles |-> "None"]

\* json.dumps of a value written to the cache or published
json_dumps(x) == ToString(x)

\* result_data of Complete; the first is the same without the transcript id
result_data_without_id(res) ==
    [segments_count |-> Len(res.segments), duration |-> res.duration]

result_data(res) == [transcript_id |-> "uuid", segments_count |-> Len(res.segments), duration |-> res.duration]

\* what a completion message of the result stream hands to Persist: the
\* segments as dicts, a duration and speaker roles, which are None when no
\* diarization was asked
Results ==
    { [segments |-> segments_dict(SampleSegments), duration |-> "d1",
       speaker_roles |-> "None"] }

\* the same and two more a result stream may carry: one with other
\* segments, another duration and a speaker-role map, one with other
\* segments and neither a duration nor a map
ResultsWithNone ==
    Results
        \cup { [segments |-> segments_dict(<<SampleSegments[1]>>), duration |-> "d2",
                 speaker_roles |-> "roles"],
               [segments |-> segments_dict(<<SampleSegments[2]>>), duration |-> "None",
                 speaker_roles |-> "None"] }

NoResult == [segments |-> "none", duration |-> "None", speaker_roles |-> "None"]

(* --------------------- fallback timestamps (asr.py) -------------------- *)
\* A Python float is an IEEE-754 double: Mantissa significant bits, every
\* result rounded to the nearest, ties to even.  The times that occur here
\* are not negative and stay below 2^IntBits seconds, so a double is
\* written as a binary numeral of IntBits integer and FracBits fraction
\* bits, most significant first; the spacing of doubles at one second and
\* above is 2^(1 - Mantissa) or more, so FracBits holds each of them.
IntBits == 12
FracBits == 56
Mantissa == 53
Width == IntBits + FracBits
Positions == 1..Width

RECURSIVE Pow2(_)
Pow2(n) == IF n = 0 THEN 1 ELSE 2 * Pow2(n - 1)

\* the numeral with the digits f[1] .. f[Width]
RECURSIVE Range(_, _, _)
Range(f, lo, hi) ==
    IF lo = hi THEN <<f[lo]>>
    ELSE LET mid == (lo + hi) \div 2 IN Range(f, lo, mid) \o Range(f, mid + 1, hi)
Bits(f) == Range(f, 1, Width)

\* 0.0, the float of a whole number, 0.5
Zero == Bits([i \in Positions |-> 0])
FromNat(n) ==
    Bits([i \in Positions |-> IF i <= IntBits THEN (n \div Pow2(IntBits - i)) % 2 ELSE 0])
Half == Bits([i \in Positions |-> IF i = IntBits + 1 THEN 1 ELSE 0])

\* a < b
Less(a, b) == \E i \in Positions : a[i] < b[i] /\ \A j \in 1..(i - 1) : a[j] = b[j]

\* the carry out of digit i of the sum a + b
Carry(a, b, i) ==
    \E j \in i..Width : a[j] + b[j] = 2 /\ \A k \in i..(j - 1) : a[k] + b[k] = 1

\* the sum a + b before it is rounded
ExactAdd(a, b) ==
    Bits([i \in Positions |-> (a[i] + b[i] + IF Carry(a, b, i + 1) THEN 1 ELSE 0) % 2])

\* x, or x and something below its last digit when sticky, rounded to
\* Mantissa significant bits
RoundNearestEven(x, sticky) ==
    IF x = Zero THEN Zero
    ELSE LET lead == CHOOSE i \in Positions : x[i] = 1 /\ \A j \in 1..(i - 1) : x[j] = 0
             last == lead + Mantissa - 1
         IN  IF last >= Width THEN x
             ELSE LET kept == Bits([i \in Positions |-> IF i <= last THEN x[i] ELSE 0])
                      rest == sticky \/ \E j \in (last + 2)..Width : x[j] = 1
                      up == x[last + 1] = 1 /\ (rest \/ x[last] = 1)
                      ulp == Bits([i \in Positions |-> IF i = last THEN 1 ELSE 0])
                  IN  IF up THEN ExactAdd(kept, ulp) ELSE kept

\* a + b of two floats
fl_add(a, b) == RoundNearestEven(ExactAdd(a, b), FALSE)

\* word_count / words_per_second with words_per_second = 2.5: the digits of
\* 2 * word_count / 5 by long division, then rounded
div_words_per_second(word_count) ==
    LET n == FromNat(2 * word_count)
        r(i) == IF i <= IntBits THEN ((2 * word_count) \div Pow2(IntBits - i)) % 5
                ELSE (((2 * word_count) % 5) * Pow2((i - IntBits) % 4)) % 5
        q == Bits([i \in Positions |-> (2 * r(i - 1) + n[i]) \div 5])
    IN  RoundNearestEven(q, r(Width) # 0)

\* max(a, b)
max(a, b) == IF Less(a, b) THEN b ELSE a

\* a text of a segment and len(text.split()) of it
Texts == [id : {"t1"}, words : {1}] \cup [id : {"t4"}, words : {4}]
             \cup [id : {"t800"}, words : {800}]
word_count(text) == text.words

\* TranscriptSegment
TranscriptSegment(start, end, text, speaker_tag, confidence) ==
    [start |-> start, end |-> end, text |-> text, speaker_tag |-> speaker_tag,
     confidence |-> confidence]

\* the segments process_riva_response builds from a response: without
\* word timings start and end are 0.0; with them they are the times of
\* the first and the last word
RivaSegments ==
    { TranscriptSegment(Zero, Zero, t, "1", "1.0") : t \in Texts }
        \cup { TranscriptSegment(Zero, FromNat(2), t, "0", "0.9") : t \in Texts }

\* lists of at most n such segments, none empty
RECURSIVE RivaListsUpTo(_)
RivaListsUpTo(n) ==
    IF n = 0 THEN {<<>>}
    ELSE LET shorter == RivaListsUpTo(n - 1)
         IN  shorter \cup { Append(l, s) : l \in { x \in shorter : Len(x) = n - 1 },
                                           s \in RivaSegments }
RivaLists == RivaListsUpTo(MaxRivaSegments)

all_zero(segments) ==
    \A i \in 1..Len(segments) : segments[i].start = Zero /\ segments[i].end = Zero

\* the loop both add_estimated_timestamps and regenerate_timestamps_from_text
\* run: from segment i on, with current_time
RECURSIVE estimate_from(_, _, _)
estimate_from(segments, i, current_time) ==
    IF i > Len(segments) THEN segments
    ELSE LET segment == segments[i]
             duration == max(FromNat(1), div_words_per_second(word_count(segment.text)))
             estimated == TranscriptSegment(current_time, fl_add(current_time, duration),
                                            segment.text, segment.speaker_tag,
                                            segment.confidence)
         IN  estimate_from([segments EXCEPT ![i] = estimated], i + 1,
                           fl_add(current_time, fl_add(duration, Half)))

regenerate_timestamps_from_text(segments) == estimate_from(segments, 1, Zero)

add_estimated_timestamps(segments) ==
    IF segments = <<>> THEN segments
    ELSE IF all_zero(segments) THEN estimate_from(segments, 1, Zero)
    ELSE segments

\* a start before the previous start, a start more than 1800 s after it, or
\* a segment longer than 300 s, in a segment after the first; the
\* differences are compared as the sums they amount to
has_issues(segments) ==
    \E i \in 2..Len(segments) :
        LET prev == segments[i - 1]
            curr == segments[i]
        IN  \/ Less(curr.start, prev.start)
            \/ Less(ExactAdd(prev.start, FromNat(1800)), curr.start)
            \/ Less(ExactAdd(curr.start, FromNat(300)), curr.end)

fix_inconsistent_timestamps(segments) ==
    IF Len(segments) < 2 THEN segments
    ELSE IF has_issues(segments) THEN regenerate_timestamps_from_text(segments)
    ELSE segments

\* the end of process_riva_response
process_riva_response(segments) ==
    fix_inconsistent_timestamps(add_estimated_timestamps(segments))

(* ------------------- word boosting (domain_manager.py) ----------------- *)
\* the categories a word_boosting_config may have, in the order of the dict,
\* and the terms a category may list; the scores are two of the seeds'
Categories == <<"medications", "procedures">>
TermsOf(category) ==
    IF category = "medications" THEN {<<>>, <<"aspirin">>, <<"aspirin", "ibuprofen">>}
    ELSE {<<>>, <<"biopsy">>, <<"biopsy", "suture">>}
BoostScores == {40, 45}

\* what a category maps to: a dict with terms and boost_score, a dict
\* lacking one of the keys, or something that is not a dict
CategoryData(category) ==
    [type : {"dict"}, value : [terms : TermsOf(category), boost_score : BoostScores]]
        \cup [type : {"dict"}, value : [terms : TermsOf(category)]]
        \cup [type : {"dict"}, value : [boost_score : BoostScores]]
        \cup {[type |-> "str", value |-> "n/a"]}

\* config.items() of the configurations: no category, one, or both
Configs ==
    {<<>>}
        \cup { <<[category |-> Categories[i], data |-> d]>> :
                   i \in {1}, d \in CategoryData(Categories[1]) }
        \cup { <<[category |-> Categories[i], data |-> d]>> :
                   i \in {2}, d \in CategoryData(Categories[2]) }
        \cup { <<[category |-> Categories[1], data |-> d], [category |-> Categories[2], data |-> e]>> :
                   d \in CategoryData(Categories[1]), e \in CategoryData(Categories[2]) }

\* what context_repo.get_by_id returns: None, or a Context
Contexts ==
    {[found |-> FALSE, word_boosting_config |-> <<>>]}
        \cup [found : {TRUE}, word_boosting_config : Configs]

\* dict.get
get(data, key, default) == IF key \in DOMAIN data THEN data[key] ELSE default

\* [x] * n; the first is the same with one x whatever n
times_once(x, n) == <<x>>

RECURSIVE times(_, _)
times(x, n) == IF n = 0 THEN <<>> ELSE <<x>> \o times(x, n - 1)

\* the loop of load_word_boosting_terms from item i on
RECURSIVE extend_from(_, _, _, _)
extend_from(items, i, all_terms, all_scores) ==
    IF i > Len(items) THEN [terms |-> all_terms, scores |-> all_scores]
    ELSE LET data == items[i].data
         IN  IF data.type # "dict" THEN extend_from(items, i + 1, all_terms, all_scores)
             ELSE LET terms == get(data.value, "terms", <<>>)
                      boost_score == get(data.value, "boost_score", 30)
                  IN  extend_from(items, i + 1, all_terms \o terms,
                                  all_scores \o times(boost_score, Len(terms)))

\* DomainManager.load_word_boosting_terms
load_word_boosting_terms(context) ==
    IF ~context.found \/ Len(context.word_boosting_config) = 0
    THEN [terms |-> <<>>, scores |-> <<>>]
    ELSE extend_from(context.word_boosting_config, 1, <<>>, <<>>)

\* transcribe_audio_file up to offline_recognize: whether the terms were
\* loaded, what was loaded, the boosted words and scores of the
\* RecognitionConfig, and that the engine is called with it
configure_recognition(context_id, db, context) ==
    LET load == context_id # "None" /\ db
        loaded == IF load THEN load_word_boosting_terms(context)
                  ELSE [terms |-> <<>>, scores |-> <<>>]
        boost == load /\ Len(loaded.terms) > 0 /\ Len(loaded.scores) > 0
    IN  [load |-> load, loaded |-> loaded,
         boosted_lm_words |-> IF boost THEN loaded.terms ELSE <<>>,
         boosted_lm_scores |-> IF boost THEN loaded.scores ELSE <<>>,
         recognized |-> TRUE]

(* --------------------------- durable rows ------------------------------ *)
Fields ==
    { "status", "error_message", "segments", "duration", "speaker_roles",
      "worker_id", "started_at", "attempts", "completed_at", "error_details" }

NullDetails == [error |-> "null", worker_id |-> "null", engine |-> "null", kind |-> "null"]

\* rows as TranscriptRepository.create and TranscriptJobRepository.create
\* leave them
NewRows ==
    [ status |-> "processing", error_message |-> "null", segments |-> <<>>,
      duration |-> "None", speaker_roles |-> "None",
      worker_id |-> "null", started_at |-> "null", attempts |-> 0,
      completed_at |-> "null", error_details |-> NullDetails ]

NoWrites == [f \in {} |-> "null"]

\* what a session reads: the committed rows overlaid with its own flushed,
\* not yet committed writes
View(d, p) == [f \in Fields |-> IF f \in DOMAIN p THEN p[f] ELSE d[f]]

Write(p, f, v) == [g \in (DOMAIN p) \cup {f} |-> IF g = f THEN v ELSE p[g]]

\* AsyncSession.commit: the flushed writes become the committed rows
Commit(d, p) == View(d, p)

update_status(p, status, error_message) ==
    LET p1 == Write(p, "status", status)
    IN  IF error_message # "" THEN Write(p1, "error_message", error_message) ELSE p1

update_segments_keeps_status(p, res) == Write(p, "segments", res.segments)

update_segments(p, res) ==
    LET p1 == Write(p, "segments", res.segments)
        p2 == IF res.duration # "None" THEN Write(p1, "duration", res.duration) ELSE p1
        p3 == IF res.speaker_roles # "None"
              THEN Write(p2, "speaker_roles", res.speaker_roles) ELSE p2
    IN  Write(p3, "status", "completed")

update_worker_info(p, worker_id) ==
    Write(Write(p, "worker_id", worker_id), "started_at", "set")

increment_attempts_twice(d, p) == Write(p, "attempts", View(d, p).attempts + 2)

increment_attempts(d, p) == Write(p, "attempts", View(d, p).attempts + 1)

mark_completed_noop(p) == p

mark_completed(p) == Write(p, "completed_at", "set")

mark_failed_without_details(p, error_details) == Write(p, "completed_at", "set")

mark_failed(p, error_details) ==
    Write(Write(p, "completed_at", "set"), "error_details", error_details)

\* no Transcript and no TranscriptJob row
NoRows == [f \in Fields |-> "absent"]

TranscriptFields == {"status", "error_message", "segments", "duration", "speaker_roles"}

\* TranscriptRepository.create and the commit after it, before the job row
\* exists
TranscriptOnly == [f \in Fields |-> IF f \in TranscriptFields THEN NewRows[f] ELSE "absent"]

(* -------------------------- enqueue request ---------------------------- *)
\* an upload as POST /transcribe receives it: whether the content type is
\* audio, whether the size is within max_file_size, the session and context
\* ids (none, a UUID, or not a UUID) and whether the file has a name
Requests ==
    [content_type_ok : BOOLEAN, size_ok : BOOLEAN,
     session_id : {"none", "uuid", "bad"}, context_id : {"none", "uuid", "bad"},
     filename_ok : BOOLEAN]

\* the checks without the one on the engine
validate_without_engine(e, req) ==
    IF ~req.content_type_ok THEN "400"
    ELSE IF ~req.size_ok THEN "413"
    ELSE IF req.session_id = "bad" THEN "400"
    ELSE IF req.context_id = "bad" THEN "400"
    ELSE IF ~req.filename_ok THEN "400"
    ELSE "ok"

\* the checks of enqueue_transcription_job and _enqueue_job_internal before
\* the try block, in their order: the status code of the HTTPException
\* raised, or ok
validate(e, req) ==
    IF e \notin {"asr", "whisperx"} THEN "400"
    ELSE IF ~req.content_type_ok THEN "400"
    ELSE IF ~req.size_ok THEN "413"
    ELSE IF req.session_id = "bad" THEN "400"
    ELSE IF req.context_id = "bad" THEN "400"
    ELSE IF ~req.filename_ok THEN "400"
    ELSE "ok"

\* the request that left the job the worker specifications follow
AcceptedRequest ==
    [content_type_ok |-> TRUE, size_ok |-> TRUE, session_id |-> "none",
     context_id |-> "none", filename_ok |-> TRUE]

\* the condition of TranscriptJobRepository.get_retryable_jobs on the
\* committed job row d
retryable(d) == d.attempts < max_retries /\ d.completed_at = "null"

(* ----------------------------- cache ----------------------------------- *)
\* RedisJobManager.default_ttl, in seconds
default_ttl == 3600

\* what TTL answers for a key that does not exist, and for one without expiry
NoKey == 0 - 2
NoExpiry == 0 - 1

NoEntry == [present |-> FALSE, status |-> "none", progress |-> "unset",
            result |-> "unset", error |-> "unset", ttl |-> NoKey]

\* RedisJobManager.create_job
create_job == [present |-> TRUE, status |-> "queued", progress |-> "0",
               result |-> "unset", error |-> "unset", ttl |-> default_ttl]

\* the same write issued without `ex`: the key is left without expiry
update_job_status_without_ex(c, status, progress, result, error) ==
    LET cur == IF c.present THEN c ELSE NoEntry
    IN  [present |-> TRUE,
         status |-> status,
         progress |-> IF progress # "keep" THEN progress ELSE cur.progress,
         result |-> IF result # "keep" THEN result ELSE cur.result,
         error |-> IF error # "keep" THEN error ELSE cur.error,
         ttl |-> NoExpiry]

\* RedisJobManager.update_job_status: read the entry (or start a new one),
\* overwrite status, progress when given and the keyword fields, set again
\* with the TTL.  "keep" stands for an argument the call does not pass.
update_job_status(c, status, progress, result, error) ==
    LET cur == IF c.present THEN c ELSE NoEntry
    IN  [present |-> TRUE,
         status |-> status,
         progress |-> IF progress # "keep" THEN progress ELSE cur.progress,
         result |-> IF result # "keep" THEN result ELSE cur.result,
         error |-> IF error # "keep" THEN error ELSE cur.error,
         ttl |-> default_ttl]

\* no job:{id}:result key
NoResultKey == [value |-> "unset", ttl |-> NoKey]

\* RedisJobManager.set_job_result: the JSON text of the result, set with the
\* TTL
set_job_result(res) == [value |-> json_dumps(res), ttl |-> default_ttl]

NoEvent == [status |-> "none", detail |-> "null"]

\* RedisPublisher.publish_status_update: the message put on the job's
\* channel.  Of the payload the status and the result or error it carries
\* are kept (the progress figure and the progress text are not).
Event(status, detail) == [status |-> status, detail |-> detail]

\* GET /status/{job_id}: the cache entry as stored when there is one, else
\* the status of the Transcript row with the attempts, worker, times and
\* error_details of the job row
get_job_status(c, d) ==
    IF c.present
    THEN [source |-> "cache", status |-> c.status, progress |-> c.progress,
          result |-> c.result, error |-> c.error]
    ELSE [source |-> "durable", status |-> d.status, attempts |-> d.attempts,
          worker_id |-> d.worker_id, started_at |-> d.started_at,
          completed_at |-> d.completed_at, error_details |-> d.error_details]

\* the read without the check for a Transcript still being processed
get_job_result_unless_failed(d) ==
    IF d.worker_id = "absent" \/ d.status = "absent"
    THEN [code |-> "404", detail |-> "not found", segments |-> "none"]
    ELSE IF d.status = "failed"
    THEN [code |-> "500", detail |-> d.error_message, segments |-> "none"]
    ELSE [code |-> "200", detail |-> "null", segments |-> d.segments]

\* GET /result/{job_id} on the committed rows d: 404 when the job or the
\* Transcript is not found, 202 while the Transcript is processing, 500
\* with the stored error message when it failed, else the row's segments as
\* stored
get_job_result(d) ==
    IF d.worker_id = "absent" \/ d.status = "absent"
    THEN [code |-> "404", detail |-> "not found", segments |-> "none"]
    ELSE IF d.status = "processing"
    THEN [code |-> "202", detail |-> "in progress", segments |-> "none"]
    ELSE IF d.status = "failed"
    THEN [code |-> "500", detail |-> d.error_message, segments |-> "none"]
    ELSE [code |-> "200", detail |-> "null", segments |-> d.segments]

Terminal == {"completed", "failed"}

Subscribers == 1..MaxSubscribers

NoStream == [state |-> "closed", pending |-> NoEvent, got |-> NoEvent]

\* Redis PUBLISH: every connection subscribed to the channel gets the
\* message.  A subscription passes a message that is not terminal on to its
\* client and stays as it was; a terminal one waits on the connection until
\* the subscription reads it, and what is published behind it is never read.
fanout_first_only(sb, msg) ==
    [i \in Subscribers |->
        IF /\ sb[i].state = "listening"
           /\ sb[i].pending = NoEvent
           /\ msg.status \in Terminal
           /\ \A j \in 1..(i - 1) : sb[j].state # "listening"
        THEN [sb[i] EXCEPT !.pending = msg]
        ELSE sb[i]]

fanout(sb, msg) ==
    [i \in Subscribers |->
        IF sb[i].state = "listening" /\ sb[i].pending = NoEvent /\ msg.status \in Terminal
        THEN [sb[i] EXCEPT !.pending = msg]
        ELSE sb[i]]

(* ------------------------- control flow -------------------------------- *)
Pipeline == <<"initialize", "download", "transcribe", "persist", "complete">>

InitLabels == {"init_cache", "init_pub", "init_worker", "init_incr", "init_commit"}
DownloadLabels == {"dl_pub", "dl_check", "dl_read"}
TranscribeLabels == {"tmp_create", "tr_pub", "tr_engine"}
PersistLabels == {"save_pub", "save_update"}
CompleteLabels == {"cmp_mark", "cmp_commit", "cmp_cache", "cmp_result", "cmp_pub"}
HandlerLabels == {"h_status", "h_mark", "h_commit", "h_cache", "h_pub"}
EndLabels == {"returned", "raised", "cancelled"}
StepLabels ==
    InitLabels \cup DownloadLabels \cup TranscribeLabels \cup PersistLabels \cup CompleteLabels

\* the pipeline step an await belongs to
StepOf(l) ==
    IF l \in InitLabels THEN "initialize"
    ELSE IF l \in DownloadLabels THEN "download"
    ELSE IF l \in TranscribeLabels THEN "transcribe"
    ELSE IF l \in PersistLabels THEN "persist"
    ELSE IF l \in CompleteLabels THEN "complete"
    ELSE IF l \in HandlerLabels THEN "handle_failure"
    ELSE "none"

\* the await that follows l when l succeeds
Succ(i, l) ==
    CASE l = "init_cache" -> "init_pub"
      [] l = "init_pub" -> "init_worker"
      [] l = "init_worker" -> "init_incr"
      [] l = "init_incr" -> "init_commit"
      [] l = "init_commit" -> "dl_pub"
      [] l = "dl_pub" -> IF i = "processor" THEN "dl_check" ELSE "dl_read"
      [] l = "dl_check" -> "dl_read"
      [] l = "dl_read" -> "tmp_create"
      [] l = "tmp_create" -> "tr_pub"
      [] l = "tr_pub" -> "tr_engine"
      [] l = "tr_engine" -> "save_pub"
      [] l = "save_pub" -> "save_update"
      [] l = "save_update" -> "cmp_mark"
      [] l = "cmp_mark" -> "cmp_commit"
      [] l = "cmp_commit" -> "cmp_cache"
      [] l = "cmp_cache" -> "cmp_result"
      [] l = "cmp_result" -> "cmp_pub"
      [] l = "cmp_pub" -> "returned"
      [] l = "h_status" -> "h_mark"
      [] l = "h_mark" -> "h_commit"
      [] l = "h_commit" -> "h_cache"
      [] l = "h_cache" -> "h_pub"
      [] l = "h_pub" -> "raised"

\* str(error) of the exception an await raises: the engine's, or that of a
\* failing cache, channel, subs, storage or database call
ErrorOf(l) == IF l = "tr_engine" THEN "engine" ELSE "io"

\* the exception that leaves the handler when one of its own writes raised
\* while it handled e: _handle_failure catches the cleanup error, logs it and
\* its bare `raise` raises e again; the except block of
\* process_transcription_job has no try around its writes, so the exception
\* of the write leaves it, with e as its context only
cleanup_raises(i, e) == IF i = "processor" THEN e ELSE "cleanup"

\* the awaits covered by the cleanup of the temporary audio file: the body of
\* `async with self._temp_audio_file(...)` in the processor, the try/finally
\* of process_transcription_job in the inline function
TempScope(i) ==
    IF i = "processor" THEN {"tr_pub", "tr_engine"}
    ELSE {"tr_pub", "tr_engine"} \cup PersistLabels \cup CompleteLabels

(* ------------------------------ state ---------------------------------- *)
VARIABLES
    impl,          \* which implementation of the attempt the worker runs
    queue,         \* the job on the work queue: queued, running, retry, finished
    job_try,       \* deliveries of the job so far
    pc,            \* the await the running attempt is at; idle between attempts
    err,           \* the step whose exception the failure handler is handling
    db,            \* committed Transcript and TranscriptJob rows
    pend,          \* writes flushed in the attempt's session, not yet committed
    cache,         \* job:{id}:status
    cacheResult,   \* job:{id}:result
    channel,       \* the message last published on transcription:status:{id}
    temp_path,     \* the attempt's temp_path: None or set
    tempFiles,     \* temporary audio files of the job that exist on disk
    dlAttempt,     \* loop variable of _download_audio
    audioVisible,  \* the Object Store reports the audio key as present
    engineSegments, \* the segments the engine finds in the audio of the job
    engineFault,   \* what is wrong when the engine call of the job raises: the
                   \* client timed out, or the response does not parse
    engine,        \* the engine the request, and then the work item, names
    enq,           \* the enqueue request of the job: the upload received, the
                   \* await its handler is at, whether the audio has been put
                   \* in the Object Store, the status code of the response
    result,        \* transcript_result of the attempt
    steps,         \* pipeline steps the running attempt has entered, in order
    outcomes,      \* how the last ended attempt ended, and whether every attempt so
                   \* far either returned or raised the engine's exception
    att,           \* what the running attempt has done so far: the steps whose
                   \* commit it made, the steps whose status it wrote to the cache
                   \* or published, how far its failure handler got, whether a
                   \* storage call of Download raised although the key was there,
                   \* after how many passes Download gave up, the committed
                   \* attempts of the job when the attempt began, the statuses
                   \* of the messages it published, in order, the sleeps of
                   \* the retry loop of Download, and the exception it raised
                   \* to the queue
    cpc,           \* the await the Result Consumer is at; idle between messages
    cmsg,          \* the result message being handled
    consumed,      \* result messages received so far
    call,          \* the call of a function of the services that is looked at on
                   \* its own: its name, its argument, whether it has returned, and
                   \* what it returned
    pool,          \* the jobs of the shared queue as one worker of the pool sees
                   \* them: queued, running in this worker, or done
    subs           \* the live-update streams opened for the job: where each is,
                   \* the terminal message waiting on its connection and the
                   \* terminal message it passed to its client

\* everything but the subscriptions
wv == <<impl, queue, job_try, pc, err, db, pend, cache, cacheResult, channel,
        temp_path, tempFiles, dlAttempt, audioVisible, engineSegments, engineFault,
        engine,
        enq, result, steps, outcomes, att, cpc, cmsg, consumed>>

vars == <<wv, subs, pool, call>>

qv == <<queue, job_try>>
rv == <<cache, cacheResult, channel, subs>>
cv == <<cpc, cmsg, consumed>>
tv == <<temp_path, tempFiles>>
ev == <<impl, audioVisible, engineSegments, engineFault, engine, enq, pool, call>>

\* what the enqueue handler never touches
kv == <<impl, audioVisible, engineSegments, engineFault, engine, pool, call, job_try, pc, err, pend,
        cacheResult, channel, subs, tv, dlAttempt, result, steps, outcomes, att,
        cv>>

NoAttempt == [committed |-> {}, shown |-> {}, handled |-> "none",
              fault |-> FALSE, passes |-> 0, before |-> 0, published |-> <<>>,
              sleeps |-> 0, raised |-> "none"]

\* the attempt has put a message of that status on the channel
Published(a, status) == [a EXCEPT !.published = Append(@, status)]

NoMsg == [status |-> "none", res |-> NoResult, error |-> "null", transcript_id |-> "none"]

\* no function is looked at on its own
NoCall == [op |-> "none", arg |-> <<>>, done |-> FALSE, ret |-> <<>>]

\* no attempt has run, no result message has arrived, no stream is open
InitWorker ==
    /\ impl \in Impls
    /\ pool = [j \in PoolJobs |-> "queued"]
    /\ job_try = 0
    /\ pc = "idle"
    /\ err = "none"
    /\ pend = NoWrites
    /\ cacheResult = NoResultKey
    /\ channel = NoEvent
    /\ temp_path = "None"
    /\ tempFiles = 0
    /\ dlAttempt = 0
    /\ audioVisible \in BOOLEAN
    /\ result = NoResult
    /\ steps = <<>>
    /\ outcomes = [last |-> "none", clean |-> TRUE]
    /\ att = NoAttempt
    /\ cpc = "idle"
    /\ cmsg = NoMsg
    /\ consumed = 0
    /\ subs = [i \in Subscribers |-> NoStream]

\* the state _enqueue_job_internal leaves: both rows created and committed,
\* the cache entry created, the job enqueued
InitFor(lists, engines) ==
    /\ InitWorker
    /\ call = NoCall
    /\ engineFault = "timeout"
    /\ engineSegments \in lists
    /\ engine \in engines
    /\ enq = [req |-> AcceptedRequest, pc |-> "done", uploaded |-> TRUE,
              response |-> "200"]
    /\ queue = "queued"
    /\ db = NewRows
    /\ cache = create_job

Init == InitFor({SampleSegments}, {Engine})

\* the same for each list of segments the engine may return
InitSegments == InitFor(SegmentLists, {Engine})

\* a work item naming any engine is on the queue; the processor is only
\* ever constructed with a supported one
InitWorkItems ==
    /\ InitFor({SampleSegments}, EngineNames)
    /\ impl = "processor" => engine \in TranscriptionEngine

\* the failures the engine call can end in: asyncio.TimeoutError of the
\* HTTP client, or a response normalize_whisperx_response cannot read
EngineFaults == {"timeout", "malformed"}

\* a job whose engine call, when it raises, raises for either reason
InitEngineFaults ==
    /\ InitWorker
    /\ call = NoCall
    /\ engineFault \in EngineFaults
    /\ engineSegments = SampleSegments
    /\ engine \in TranscriptionEngine
    /\ enq = [req |-> AcceptedRequest, pc |-> "done", uploaded |-> TRUE,
              response |-> "200"]
    /\ queue = "queued"
    /\ db = NewRows
    /\ cache = create_job

\* the job as InitFor leaves it, and process_riva_response about to
\* post-process the segments it built from a response
InitRivaResponse ==
    /\ InitWorker
    /\ engineFault = "timeout"
    /\ engineSegments = SampleSegments
    /\ engine = Engine
    /\ enq = [req |-> AcceptedRequest, pc |-> "done", uploaded |-> TRUE,
              response |-> "200"]
    /\ queue = "queued"
    /\ db = NewRows
    /\ cache = create_job
    /\ call \in [op : {"process_riva_response"}, arg : RivaLists,
                 done : {FALSE}, ret : {<<>>}]

\* the job as InitFor leaves it, and transcribe_audio_file about to
\* configure the recognition: with or without a context id, with or
\* without a session, the context of that id existing or not
InitWordBoosting ==
    /\ InitWorker
    /\ engineFault = "timeout"
    /\ engineSegments = SampleSegments
    /\ engine = Engine
    /\ enq = [req |-> AcceptedRequest, pc |-> "done", uploaded |-> TRUE,
              response |-> "200"]
    /\ queue = "queued"
    /\ db = NewRows
    /\ cache = create_job
    /\ call \in [op : {"transcribe_audio_file"},
                 arg : [context_id : {"None", "uuid"}, db : BOOLEAN, context : Contexts],
                 done : {FALSE}, ret : {<<>>}]

\* the awaits that both implementations of the attempt make: every await of
\* the five steps but the existence check, which only the processor makes,
\* and the creation of the temporary file, and the writes of the failure
\* handler
SharedCalls == (StepLabels \ {"dl_check", "tmp_create"}) \cup HandlerLabels

\* the awaits that write a row, commit, write a cache key or publish
WriteLabels == SharedCalls \ {"dl_read", "tr_engine"}

\* the outcomes of the calls of one attempt: the calls that raise, and
\* whether the Object Store has the audio key
CallOutcomes ==
    [raises : {s \in SUBSET SharedCalls : Cardinality(s) <= MaxRaising},
     visible : BOOLEAN]

\* the await at l does not come back with what the step needs: the call
\* raises, or the key is not there (file_exists is False on every pass of
\* the processor's loop and it raises RuntimeError; read_file of the inline
\* function raises)
call_fails(o, l) ==
    \/ l \in o.raises
    \/ l \in {"dl_check", "dl_read"} /\ ~o.visible

\* one attempt of implementation i with outcomes o, from await l on, tr the
\* writes made so far and e the exception of the failed step: the writes in
\* order, and how the attempt ends
RECURSIVE attempt_from(_, _, _, _, _)
attempt_from(i, o, l, tr, e) ==
    IF l = "returned" THEN [writes |-> tr, end |-> "returned", raised |-> "none"]
    ELSE IF l \in HandlerLabels
    THEN IF l \in o.raises
         THEN [writes |-> tr, end |-> "raised", raised |-> cleanup_raises(i, e)]
         ELSE IF l = "h_pub"
         THEN [writes |-> Append(tr, l), end |-> "raised", raised |-> e]
         ELSE attempt_from(i, o, Succ(i, l), Append(tr, l), e)
    ELSE IF call_fails(o, l) THEN attempt_from(i, o, "h_status", tr, ErrorOf(l))
    ELSE attempt_from(i, o, Succ(i, l),
                      IF l \in WriteLabels THEN Append(tr, l) ELSE tr, e)

\* process_transcription_job (inline) or TranscriptionJobProcessor.process
\* (processor) on a job of a supported engine
attempt(i, o) == attempt_from(i, o, "init_cache", <<>>, "none")

\* the job as InitFor leaves it, and the two implementations about to run
\* on it with the same outcomes of their calls
InitBothAttempts ==
    /\ InitWorker
    /\ engineFault = "timeout"
    /\ engineSegments = SampleSegments
    /\ engine = Engine
    /\ enq = [req |-> AcceptedRequest, pc |-> "done", uploaded |-> TRUE,
              response |-> "200"]
    /\ queue = "queued"
    /\ db = NewRows
    /\ cache = create_job
    /\ call \in [op : {"attempt"}, arg : CallOutcomes, done : {FALSE}, ret : {<<>>}]

\* the payloads published on the channel of the job: the status and the
\* number of the publication
Payloads == { Event(s, ToString(n)) : s \in {"processing"} \cup Terminal, n \in 1..MaxPublished }

\* json.loads, the inverse of json.dumps
json_loads(data) == CHOOSE p \in Payloads : json_dumps(p) = data

\* subscribe_to_job has been called and has not run yet: nothing is
\* subscribed, nothing has come in on the connection, nothing was yielded
NoSubscription ==
    [pc |-> "start", feed |-> <<>>, read |-> 0, yielded |-> <<>>, subscribed |-> FALSE,
     unsubscribe |-> FALSE, close |-> FALSE, ended |-> "no"]

\* the job as InitFor leaves it, and a client that is about to iterate
\* subscribe_to_job
InitSubscription ==
    /\ InitWorker
    /\ engineFault = "timeout"
    /\ engineSegments = SampleSegments
    /\ engine = Engine
    /\ enq = [req |-> AcceptedRequest, pc |-> "done", uploaded |-> TRUE,
              response |-> "200"]
    /\ queue = "queued"
    /\ db = NewRows
    /\ cache = create_job
    /\ call = [op |-> "subscribe_to_job", arg |-> "job_id", done |-> FALSE,
               ret |-> NoSubscription]

\* a request has arrived at POST /transcribe; nothing exists for it yet
InitEnqueue ==
    /\ InitWorker
    /\ call = NoCall
    /\ engineFault = "timeout"
    /\ engineSegments = SampleSegments
    /\ engine \in EngineNames
    /\ enq \in [req : Requests, pc : {"validate"}, uploaded : {FALSE},
                 response : {"none"}]
    /\ queue = "none"
    /\ db = NoRows
    /\ cache = NoEntry

\* RedisPublisher.publish_status_update and the calls that wrap it
publish_status_update(msg) ==
    /\ channel' = msg
    /\ subs' = fanout(subs, msg)

(* ------------------------------ enqueue -------------------------------- *)
\* the checks before the try block: an HTTPException answers the request,
\* else the handler goes on to read and upload the file
EnqueueValidate ==
    /\ enq.pc = "validate"
    /\ LET v == validate(engine, enq.req) IN
       enq' = IF v = "ok" THEN [enq EXCEPT !.pc = "upload"]
              ELSE [enq EXCEPT !.pc = "done", !.response = v]
    /\ UNCHANGED <<kv, queue, db, cache>>

\* file.read and storage.save_file
EnqueueUpload ==
    /\ enq.pc = "upload"
    /\ enq' = [enq EXCEPT !.pc = "transcript", !.uploaded = TRUE]
    /\ UNCHANGED <<kv, queue, db, cache>>

\* transcript_repo.create and commit
EnqueueTranscript ==
    /\ enq.pc = "transcript"
    /\ db' = TranscriptOnly
    /\ enq' = [enq EXCEPT !.pc = "job"]
    /\ UNCHANGED <<kv, queue, cache>>

\* job_repo.create and commit
EnqueueJob ==
    /\ enq.pc = "job"
    /\ db' = NewRows
    /\ enq' = [enq EXCEPT !.pc = "cache"]
    /\ UNCHANGED <<kv, queue, cache>>

\* job_manager.create_job
EnqueueCache ==
    /\ enq.pc = "cache"
    /\ cache' = create_job
    /\ enq' = [enq EXCEPT !.pc = "queue"]
    /\ UNCHANGED <<kv, queue, db>>

\* arq_pool.enqueue_job, then the handler answers with the job id
EnqueueJobToArq ==
    /\ enq.pc = "queue"
    /\ queue' = "queued"
    /\ enq' = [enq EXCEPT !.pc = "done", !.response = "200"]
    /\ UNCHANGED <<kv, db, cache>>

\* an await of the try block raises: rollback of what is not committed,
\* HTTP 500
EnqueueRaises ==
    /\ enq.pc \in {"upload", "transcript", "job", "cache", "queue"}
    /\ enq' = [enq EXCEPT !.pc = "done", !.response = "500"]
    /\ UNCHANGED <<kv, queue, db, cache>>

(* ----------------------- transitions of an attempt --------------------- *)
\* the finally of the temporary file: unlink it when temp_path was assigned
Cleanup ==
    /\ temp_path' = "None"
    /\ tempFiles' = IF temp_path = "set" THEN tempFiles - 1 ELSE tempFiles

\* control moves to await l; entering a new step is recorded
Goto(l) ==
    /\ pc' = l
    /\ steps' = IF StepOf(l) \notin {"none", StepOf(pc)}
                THEN Append(steps, StepOf(l)) ELSE steps

\* the current await succeeded
Advance ==
    /\ Goto(Succ(impl, pc))
    /\ IF pc \in TempScope(impl) /\ Succ(impl, pc) \notin TempScope(impl)
       THEN Cleanup ELSE UNCHANGED tv

FailContinues ==
    /\ err' = ErrorOf(pc)
    /\ Advance

\* the current await raised an Exception: `except Exception` of process()
\* hands it to the failure handler
Fail ==
    /\ err' = ErrorOf(pc)
    /\ Goto("h_status")
    /\ IF pc \in TempScope(impl) THEN Cleanup ELSE UNCHANGED tv

\* the attempt ends: how (ok, timeout, or error for an exception raised to
\* the queue), and whether the history is still one of engine failures only
Ended(kind) ==
    [last |-> IF kind \in {"ok", "timeout"} THEN kind ELSE "error",
     clean |-> outcomes.clean /\ kind \in {"ok", "engine_failed"}]

(* ------------------------------ queue ---------------------------------- *)
\* TranscriptionEngine(engine) at the head of the try block of the worker
\* function: FALSE stands for the ValueError.  The processor is handed an
\* engine that is a TranscriptionEngine already.
engine_valid(i, e) == i = "processor" \/ e \in TranscriptionEngine

\* the worker takes the job off the queue and starts an attempt with a
\* fresh database session; the ValueError of an unsupported engine is
\* raised inside the try block and goes to the failure handler
Deliver ==
    /\ queue \in {"queued", "retry"}
    /\ pc = "idle"
    /\ queue' = "running"
    /\ job_try' = job_try + 1
    /\ pc' = IF engine_valid(impl, engine) THEN "init_cache" ELSE "h_status"
    /\ err' = IF engine_valid(impl, engine) THEN err ELSE "validation"
    /\ steps' = <<"initialize">>
    /\ att' = [att EXCEPT !.before = db.attempts]
    /\ UNCHANGED <<db, pend, rv, tv, dlAttempt, result, outcomes,
                   cv, ev>>

\* the attempt has ended; a successful job is finished, a failed or timed
\* out one may be run again while tries remain
ArqFinish ==
    /\ pc \in EndLabels
    /\ pc' = "idle"
    /\ \/ /\ pc # "returned"
          /\ job_try < max_tries
          /\ queue' = "retry"
       \/ queue' = "finished"
    /\ err' = "none"
    /\ dlAttempt' = 0
    /\ result' = NoResult
    /\ steps' = <<>>
    /\ att' = NoAttempt
    /\ UNCHANGED <<job_try, db, pend, rv, tv, outcomes, cv, ev>>

\* job_timeout: the worker cancels the attempt at the await it is suspended
\* in.  CancelledError is not an Exception, so `except Exception` does not
\* take it; finally blocks run and the session is closed without a commit.
JobTimeout ==
    /\ pc \in (StepLabels \cup HandlerLabels) \ {"tmp_create"}
    /\ pc' = "cancelled"
    /\ IF pc \in TempScope(impl) THEN Cleanup ELSE UNCHANGED tv
    /\ outcomes' = Ended("timeout")
    /\ pend' = NoWrites
    /\ dlAttempt' = 0
    /\ UNCHANGED <<qv, err, db, rv, result, steps, att, cv, ev>>

(* --------------------------- 1. Initialize ----------------------------- *)
InitCache ==
    /\ pc = "init_cache"
    /\ cache' = update_job_status(cache, "processing", "0", "keep", "keep")
    /\ Advance
    /\ att' = [att EXCEPT !.shown = @ \cup {"initialize"}]
    /\ UNCHANGED <<qv, err, db, pend, cacheResult, channel, subs, dlAttempt, result,
                   outcomes, cv, ev>>

InitPublish ==
    /\ pc = "init_pub"
    /\ publish_status_update(Event("processing", "null"))
    /\ Advance
    /\ att' = Published([att EXCEPT !.shown = @ \cup {"initialize"}], "processing")
    /\ UNCHANGED <<qv, err, db, pend, cache, cacheResult, dlAttempt, result,
                   outcomes, cv, ev>>

InitWorkerInfo ==
    /\ pc = "init_worker"
    /\ pend' = update_worker_info(pend, WorkerId)
    /\ Advance
    /\ UNCHANGED <<qv, err, db, rv, dlAttempt, result, outcomes, att, cv, ev>>

InitIncrement ==
    /\ pc = "init_incr"
    /\ pend' = increment_attempts(db, pend)
    /\ Advance
    /\ UNCHANGED <<qv, err, db, rv, dlAttempt, result, outcomes, att, cv, ev>>

InitCommit ==
    /\ pc = "init_commit"
    /\ db' = Commit(db, pend)
    /\ pend' = NoWrites
    /\ att' = [att EXCEPT !.committed = @ \cup {"initialize"}]
    /\ Advance
    /\ UNCHANGED <<qv, err, rv, dlAttempt, result, outcomes, cv, ev>>

(* ---------------------------- 2. Download ------------------------------ *)
DownloadPublish ==
    /\ pc = "dl_pub"
    /\ publish_status_update(Event("processing", "null"))
    /\ Advance
    /\ att' = Published([att EXCEPT !.shown = @ \cup {"initialize"}], "processing")
    /\ UNCHANGED <<qv, err, db, pend, cache, cacheResult, dlAttempt, result,
                   outcomes, cv, ev>>

\* one pass of the retry loop did not get the audio: sleep and go round
\* again, or give up with RuntimeError on the last pass.  The loop variable
\* is dead once the loop is left and is reset there.
DownloadRetry(fault) ==
    IF dlAttempt < AUDIO_DOWNLOAD_MAX_RETRIES - 1
    THEN /\ dlAttempt' = dlAttempt + 1
         /\ pc' = "dl_check"
         /\ att' = [att EXCEPT !.fault = @ \/ fault, !.sleeps = @ + 1]
         /\ UNCHANGED <<steps, err, tv>>
    ELSE /\ Fail
         /\ dlAttempt' = 0
         /\ att' = [att EXCEPT !.fault = @ \/ fault, !.passes = dlAttempt + 1]

\* storage_manager.file_exists in the loop of _download_audio: the key is
\* there, it is not there yet, or the call raises
DownloadCheck ==
    /\ pc = "dl_check"
    /\ \/ /\ audioVisible
          /\ Advance
          /\ UNCHANGED <<err, dlAttempt, att>>
       \/ /\ ~audioVisible
          /\ DownloadRetry(FALSE)
       \/ DownloadRetry(TRUE)
    /\ UNCHANGED <<qv, db, pend, rv, result, outcomes, cv, ev>>

\* storage_manager.read_file: inside the loop in the processor, a single
\* call in process_transcription_job, which raises when the key is not
\* there yet as it does when the store fails
DownloadRead ==
    /\ pc = "dl_read"
    /\ \/ /\ audioVisible
          /\ Advance
          /\ dlAttempt' = 0
          /\ att' = [att EXCEPT !.sleeps = 0]
          /\ UNCHANGED err
       \/ /\ impl = "processor"
          /\ DownloadRetry(TRUE)
       \/ /\ impl = "inline"
          /\ Fail
          /\ att' = [att EXCEPT !.fault = audioVisible, !.passes = 1]
          /\ UNCHANGED dlAttempt
       \/ /\ impl = "inline"
          /\ ~audioVisible
          /\ Fail
          /\ att' = [att EXCEPT !.fault = TRUE, !.passes = 1]
          /\ UNCHANGED dlAttempt
    /\ UNCHANGED <<qv, db, pend, rv, result, outcomes, cv, ev>>

(* --------------------------- 3. Transcribe ----------------------------- *)
\* NamedTemporaryFile(delete=False) creates the file, the audio is written
\* to it and only then is the path assigned; no await in between
TempCreate ==
    /\ pc = "tmp_create"
    /\ tempFiles' = tempFiles + 1
    /\ \/ /\ temp_path' = "set"
          /\ Goto("tr_pub")
          /\ UNCHANGED err
       \/ /\ temp_path' = "None"
          /\ err' = ErrorOf(pc)
          /\ Goto("h_status")
    /\ UNCHANGED <<qv, db, pend, rv, dlAttempt, result, outcomes, att, cv, ev>>

TranscribePublish ==
    /\ pc = "tr_pub"
    /\ publish_status_update(Event("processing", "null"))
    /\ Advance
    /\ att' = Published([att EXCEPT !.shown = @ \cup {"initialize"}], "processing")
    /\ UNCHANGED <<qv, err, db, pend, cache, cacheResult, dlAttempt, result,
                   outcomes, cv, ev>>

TranscribeEngine ==
    /\ pc = "tr_engine"
    /\ result' = transcribe(engineSegments)
    /\ Advance
    /\ UNCHANGED <<qv, err, db, pend, rv, dlAttempt, outcomes, att, cv, ev>>

(* ----------------------------- 4. Persist ------------------------------ *)
SavePublish ==
    /\ pc = "save_pub"
    /\ publish_status_update(Event("processing", "null"))
    /\ Advance
    /\ att' = Published([att EXCEPT !.shown = @ \cup {"initialize"}], "processing")
    /\ UNCHANGED <<qv, err, db, pend, cache, cacheResult, dlAttempt, result,
                   outcomes, cv, ev>>

SaveUpdate ==
    /\ pc = "save_update"
    /\ pend' = update_segments(pend, [result EXCEPT !.segments = segments_dict(@)])
    /\ Advance
    /\ UNCHANGED <<qv, err, db, rv, dlAttempt, result, outcomes, att, cv, ev>>

(* ---------------------------- 5. Complete ------------------------------ *)
CompleteMark ==
    /\ pc = "cmp_mark"
    /\ pend' = mark_completed(pend)
    /\ Advance
    /\ UNCHANGED <<qv, err, db, rv, dlAttempt, result, outcomes, att, cv, ev>>

CompleteCommit ==
    /\ pc = "cmp_commit"
    /\ db' = Commit(db, pend)
    /\ pend' = NoWrites
    /\ att' = [att EXCEPT !.committed = @ \cup {"complete"}]
    /\ Advance
    /\ UNCHANGED <<qv, err, rv, dlAttempt, result, outcomes, cv, ev>>

CompleteCache ==
    /\ pc = "cmp_cache"
    /\ cache' = update_job_status(cache, "completed", "100", json_dumps(result_data(result)),
                                  "keep")
    /\ Advance
    /\ att' = [att EXCEPT !.shown = @ \cup {"complete"}]
    /\ UNCHANGED <<qv, err, db, pend, cacheResult, channel, subs, dlAttempt, result,
                   outcomes, cv, ev>>

CompleteResult ==
    /\ pc = "cmp_result"
    /\ cacheResult' = set_job_result(result_data(result))
    /\ Advance
    /\ UNCHANGED <<qv, err, db, pend, cache, channel, subs, dlAttempt, result,
                   outcomes, att, cv, ev>>

\* publish_completed, then the attempt returns
CompletePublish ==
    /\ pc = "cmp_pub"
    /\ publish_status_update(Event("completed", json_dumps(result_data(result))))
    /\ Advance
    /\ outcomes' = Ended("ok")
    /\ att' = Published([att EXCEPT !.shown = @ \cup {"complete"}], "completed")
    /\ UNCHANGED <<qv, err, db, pend, cache, cacheResult, dlAttempt, result, cv, ev>>

\* any await of the five steps raises (cache, channel, subs, database or engine
\* is failing); the download loop and the temporary file have their own
\* actions
StepRaises ==
    /\ pc \in StepLabels \ {"dl_check", "dl_read", "tmp_create"}
    /\ Fail
    /\ UNCHANGED <<qv, db, pend, rv, dlAttempt, result, outcomes, att, cv, ev>>

(* -------------------------- failure handler ---------------------------- *)
HandlerStatus ==
    /\ pc = "h_status"
    /\ pend' = update_status(pend, "failed", err)
    /\ Advance
    /\ UNCHANGED <<qv, err, db, rv, dlAttempt, result, outcomes, att, cv, ev>>

ErrorDetails(e) == [error |-> e, worker_id |-> WorkerId, engine |-> engine, kind |-> "worker"]

HandlerMark ==
    /\ pc = "h_mark"
    /\ pend' = mark_failed(pend, ErrorDetails(err))
    /\ Advance
    /\ UNCHANGED <<qv, err, db, rv, dlAttempt, result, outcomes, att, cv, ev>>

HandlerCommit ==
    /\ pc = "h_commit"
    /\ db' = Commit(db, pend)
    /\ pend' = NoWrites
    /\ att' = [att EXCEPT !.committed = @ \cup {"fail"}]
    /\ Advance
    /\ UNCHANGED <<qv, err, rv, dlAttempt, result, outcomes, cv, ev>>

HandlerCache ==
    /\ pc = "h_cache"
    /\ cache' = update_job_status(cache, "failed", "keep", "keep", err)
    /\ Advance
    /\ att' = [att EXCEPT !.shown = @ \cup {"fail"}]
    /\ UNCHANGED <<qv, err, db, pend, cacheResult, channel, subs, dlAttempt, result,
                   outcomes, cv, ev>>

\* publish_failed, then the exception is raised again to the queue
HandlerPublish ==
    /\ pc = "h_pub"
    /\ publish_status_update(Event("failed", err))
    /\ Advance
    /\ outcomes' = Ended(IF err = "engine" THEN "engine_failed" ELSE "failed")
    /\ att' = Published([att EXCEPT !.shown = @ \cup {"fail"}, !.handled = "done",
                                    !.raised = err], "failed")
    /\ UNCHANGED <<qv, err, db, pend, cache, cacheResult, dlAttempt, result, cv, ev>>

\* an await inside the handler raises: the processor logs it and raises the
\* step's exception again, process_transcription_job lets it propagate; the
\* handler's remaining writes are skipped and the session closes
HandlerRaises ==
    /\ pc \in HandlerLabels
    /\ pc' = "raised"
    /\ outcomes' = Ended(IF err = "engine" THEN "engine_failed" ELSE "failed")
    /\ pend' = NoWrites
    /\ att' = [att EXCEPT !.handled = "failed", !.raised = cleanup_raises(impl, err)]
    /\ UNCHANGED <<qv, err, db, rv, tv, dlAttempt, result, steps, cv, ev>>

(* ---------------------------- environment ----------------------------- *)
\* the upload that races with the job becomes visible in the Object Store
UploadVisible ==
    /\ ~audioVisible
    /\ audioVisible' = TRUE
    /\ UNCHANGED <<impl, engineSegments, engineFault, engine, enq, pool, call, qv, pc, err, db, pend, rv,
                   tv, dlAttempt, result, steps, outcomes, att, cv>>

\* the TTL of the status key, when it has one, runs out; every write of an attempt sets it
\* again, so it runs out while the job waits or after it ended
ExpireStatus ==
    /\ pc = "idle"
    /\ cache.ttl > 0
    /\ cache' = NoEntry
    /\ UNCHANGED <<qv, pc, err, db, pend, cacheResult, channel, subs, tv, dlAttempt,
                   result, steps, outcomes, att, cv, ev>>

\* the TTL of the result key runs out
ExpireResult ==
    /\ pc = "idle"
    /\ cacheResult.ttl > 0
    /\ cacheResult' = NoResultKey
    /\ UNCHANGED <<qv, pc, err, db, pend, cache, channel, subs, tv, dlAttempt,
                   result, steps, outcomes, att, cv, ev>>

(* -------------------------- Result Consumer ---------------------------- *)
ConsumerDetails(e) == [error |-> e, worker_id |-> "null", engine |-> "null", kind |-> "consumer"]

ConsumerWritesRejectsDuplicate(m) ==
    IF m.status = "completed" /\ db.status = "completed"
    THEN update_status(NoWrites, "failed", "duplicate")
    ELSE IF m.status = "completed"
    THEN mark_completed(update_segments(NoWrites, m.res))
    ELSE IF m.status = "failed"
    THEN mark_failed(update_status(NoWrites, "failed", m.error), ConsumerDetails(m.error))
    ELSE NoWrites

\* the rows after the consumer's session has applied message m and committed
ConsumerWrites(m) ==
    IF m.status = "completed"
    THEN mark_completed(update_segments(NoWrites, m.res))
    ELSE IF m.status = "failed"
    THEN mark_failed(update_status(NoWrites, "failed", m.error), ConsumerDetails(m.error))
    ELSE NoWrites

\* the result messages that name the transcript and the job followed here;
\* the transcript id is a UUID or a string that is none
ResultMessages ==
    [status : {"completed"}, res : Results, error : {"null"},
     transcript_id : {"uuid", "bad"}]
    \cup [status : {"failed"}, res : {NoResult}, error : {"engine_failed"},
          transcript_id : {"uuid", "bad"}]

\* the completion messages with any of these results
ResultMessagesWithNone ==
    [status : {"completed"}, res : ResultsWithNone, error : {"null"},
     transcript_id : {"uuid"}]

\* the lookups without the one of the job
lookup_transcript_only(m, d) ==
    IF m.transcript_id = "bad" THEN "ValueError"
    ELSE IF d.status = "absent" THEN "no_transcript"
    ELSE "found"

\* UUID(result.transcript_id), transcript_repo.get_by_id and
\* job_repo.get_by_job_id on the committed rows d
lookup(m, d) ==
    IF m.transcript_id = "bad" THEN "ValueError"
    ELSE IF d.status = "absent" THEN "no_transcript"
    ELSE IF d.worker_id = "absent" THEN "no_job"
    ELSE "found"

\* the committed rows when the session of the handler closes: the writes of
\* the message committed when both rows were found, the rows d as they were
\* when a lookup made the handler return or raise before any write
consumer_commit_always(found, d, m) == Commit(d, ConsumerWrites(m))

consumer_commit(found, d, m) ==
    IF found = "found" THEN Commit(d, ConsumerWrites(m)) ELSE d

\* the handler is done with a message: it returned after its publish, it
\* dropped the message and returned, or it raised
Done(how, m) == [NoMsg EXCEPT !.status = how, !.transcript_id = m.transcript_id]

\* a message for the job arrives.  When the transcript or the job is not
\* found the error is logged and the handler returns; a transcript id that
\* is no UUID raises; else the rows are updated by status and committed
ConsumerReceiveFrom(msgs, most) ==
    /\ cpc = "idle"
    /\ consumed < most
    /\ \E m \in msgs :
          LET found == lookup(m, db) IN
          /\ cmsg' = IF found = "found" THEN m
                     ELSE IF found = "ValueError" THEN Done("raised", m)
                     ELSE Done("dropped", m)
          /\ db' = consumer_commit(found, db, m)
          /\ cpc' = IF found = "found" THEN "cache" ELSE "idle"
    /\ consumed' = consumed + 1
    /\ UNCHANGED <<qv, pc, err, pend, rv, tv, dlAttempt, result, steps, outcomes,
                   att, ev>>

ConsumerReceive == ConsumerReceiveFrom(ResultMessages, MaxResultMsgs)

\* the same for a stream that carries one message more, each with any of
\* the results
ConsumerReceiveAny == ConsumerReceiveFrom(ResultMessagesWithNone, MaxResultMsgs + 1)

ConsumerCache ==
    /\ cpc = "cache"
    /\ cache' = update_job_status(cache, cmsg.status,
                                  IF cmsg.status = "completed" THEN "100" ELSE "0",
                                  "keep", "keep")
    /\ cpc' = IF cmsg.status = "completed" THEN "result" ELSE "pub"
    /\ UNCHANGED <<qv, pc, err, db, pend, cacheResult, channel, subs, tv, dlAttempt,
                   result, steps, outcomes, att, cmsg, consumed, ev>>

ConsumerResult ==
    /\ cpc = "result"
    /\ cacheResult' = set_job_result(cmsg.res.segments)
    /\ cpc' = "pub"
    /\ UNCHANGED <<qv, pc, err, db, pend, cache, channel, subs, tv, dlAttempt,
                   result, steps, outcomes, att, cmsg, consumed, ev>>

ConsumerPublish ==
    /\ cpc = "pub"
    /\ publish_status_update(Event(cmsg.status, cmsg.error))
    /\ cpc' = "idle"
    /\ cmsg' = Done("returned", cmsg)
    /\ UNCHANGED <<qv, pc, err, db, pend, cache, cacheResult, tv, dlAttempt,
                   result, steps, outcomes, att, consumed, ev>>

\* a cache or publish call of the consumer raises: logged and raised again
ConsumerRaises ==
    /\ cpc \in {"cache", "result", "pub"}
    /\ cpc' = "idle"
    /\ cmsg' = Done("raised", cmsg)
    /\ UNCHANGED <<qv, pc, err, db, pend, rv, tv, dlAttempt, result, steps,
                   outcomes, att, consumed, ev>>

(* ------------------------- live-update streams ------------------------ *)
\* GET /stream/{job_id}: the generator connects to Redis, sends the
\* `connected` message and subscribes to the channel (subscribe_to_job);
\* neither the cache nor the rows are read.  Streams are numbered in the
\* order they are opened.
StreamOpen(i) ==
    /\ subs[i].state = "closed"
    /\ \A j \in 1..(i - 1) : subs[j].state # "closed"
    /\ subs' = [subs EXCEPT ![i].state = "listening"]
    /\ UNCHANGED <<wv, pool, call>>

\* pubsub.listen() hands over the terminal message: it is passed to the
\* client, both loops break, the subscription is closed
StreamReceive(i) ==
    /\ subs[i].state = "listening"
    /\ subs[i].pending # NoEvent
    /\ subs' = [subs EXCEPT ![i].state = "ended",
                            ![i].got = subs[i].pending,
                            ![i].pending = NoEvent]
    /\ UNCHANGED <<wv, pool, call>>

(* ----------------------------- worker pool ----------------------------- *)
\* jobs the worker is running
Running == { j \in PoolJobs : pool[j] = "running" }

\* the worker takes a job off the queue while it runs fewer than max_jobs
PoolStart(j) ==
    /\ pool[j] = "queued"
    /\ Cardinality(Running) < max_jobs
    /\ pool' = [pool EXCEPT ![j] = "running"]
    /\ UNCHANGED <<wv, subs, call>>

\* the coroutine of a job returns or raises
PoolFinish(j) ==
    /\ pool[j] = "running"
    /\ pool' = [pool EXCEPT ![j] = "done"]
    /\ UNCHANGED <<wv, subs, call>>

(* ------------------------- functions on their own ---------------------- *)
\* each implementation runs one attempt with the outcomes drawn
BothAttempts ==
    /\ call.op = "attempt"
    /\ ~call.done
    /\ call' = [call EXCEPT !.done = TRUE,
                            !.ret = [i \in Impls |-> attempt(i, call.arg)]]
    /\ UNCHANGED <<wv, subs, pool>>

\* process_riva_response post-processes the segments and returns them
ProcessRivaResponse ==
    /\ call.op = "process_riva_response"
    /\ ~call.done
    /\ call' = [call EXCEPT !.done = TRUE, !.ret = process_riva_response(call.arg)]
    /\ UNCHANGED <<wv, subs, pool>>

\* transcribe_audio_file configures the recognition and calls the engine
TranscribeAudioFile ==
    /\ call.op = "transcribe_audio_file"
    /\ ~call.done
    /\ call' = [call EXCEPT !.done = TRUE,
                            !.ret = configure_recognition(call.arg.context_id, call.arg.db,
                                                          call.arg.context)]
    /\ UNCHANGED <<wv, subs, pool>>

\* the messages of type message that came in on the connection
PublishedOn(feed) == SelectSeq(feed, LAMBDA m : m.type = "message")

\* the generator moves on, the rest of the call as it is
Subscription(r) ==
    /\ call.op = "subscribe_to_job"
    /\ call' = [call EXCEPT !.ret = r, !.done = r.pc = "done"]
    /\ UNCHANGED <<wv, subs, pool>>

\* pubsub.subscribe(channel): Redis confirms with a message of type
\* subscribe, or the call raises
SubscribeStart ==
    /\ call.ret.pc = "start"
    /\ \/ Subscription([call.ret EXCEPT !.pc = "listen", !.subscribed = TRUE,
                                         !.feed = <<[type |-> "subscribe", data |-> "1"]>>])
       \/ Subscription([call.ret EXCEPT !.pc = "finally", !.ended = "error"])

\* RedisPublisher.publish_status_update while the connection is
\* subscribed: json.dumps of the payload comes in on it
SubscribePublished(status) ==
    /\ call.ret.subscribed
    /\ ~call.ret.unsubscribe
    /\ Len(PublishedOn(call.ret.feed)) < MaxPublished
    /\ LET n == Len(PublishedOn(call.ret.feed)) + 1
       IN  Subscription([call.ret EXCEPT
               !.feed = Append(@, [type |-> "message",
                                   data |-> json_dumps(Event(status, ToString(n)))])])

\* pubsub.listen() hands over the next message: one of type message is
\* parsed and yielded, any other is skipped; or listen raises
SubscribeListen ==
    /\ call.ret.pc = "listen"
    /\ \/ /\ call.ret.read < Len(call.ret.feed)
          /\ LET message == call.ret.feed[call.ret.read + 1]
             IN  IF message.type = "message"
                 THEN Subscription([call.ret EXCEPT
                          !.read = @ + 1, !.pc = "yield",
                          !.yielded = Append(@, json_loads(message.data))])
                 ELSE Subscription([call.ret EXCEPT !.read = @ + 1])
       \/ Subscription([call.ret EXCEPT !.pc = "finally", !.ended = "error"])

\* the consumer asks for the next item: the generator breaks after a
\* completed or failed message, else listens on; or the consumer closes
\* the generator where it is suspended
SubscribeResume ==
    /\ call.ret.pc = "yield"
    /\ \/ IF call.ret.yielded[Len(call.ret.yielded)].status \in Terminal
          THEN Subscription([call.ret EXCEPT !.pc = "finally", !.ended = "break"])
          ELSE Subscription([call.ret EXCEPT !.pc = "listen"])
       \/ Subscription([call.ret EXCEPT !.pc = "finally", !.ended = "closed"])

\* finally: pubsub.unsubscribe(channel), then pubsub.close(); when the
\* first raises the second is not called
SubscribeFinally ==
    /\ call.ret.pc = "finally"
    /\ \/ Subscription([call.ret EXCEPT !.pc = "done", !.unsubscribe = TRUE, !.close = TRUE])
       \/ Subscription([call.ret EXCEPT !.pc = "done", !.unsubscribe = TRUE,
                                         !.ended = "error"])

(* --------------------------- specification ----------------------------- *)
Next ==
    \/ Deliver \/ ArqFinish \/ JobTimeout
    \/ InitCache \/ InitPublish \/ InitWorkerInfo \/ InitIncrement \/ InitCommit
    \/ DownloadPublish \/ DownloadCheck \/ DownloadRead
    \/ TempCreate \/ TranscribePublish \/ TranscribeEngine
    \/ SavePublish \/ SaveUpdate
    \/ CompleteMark \/ CompleteCommit \/ CompleteCache \/ CompleteResult
    \/ CompletePublish
    \/ StepRaises
    \/ HandlerStatus \/ HandlerMark \/ HandlerCommit \/ HandlerCache
    \/ HandlerPublish \/ HandlerRaises
    \/ UploadVisible \/ ExpireStatus \/ ExpireResult

\* the worker, the queue and the environment of one job
Spec == Init /\ [][Next]_vars

NextWithConsumer ==
    \/ Next
    \/ ConsumerReceive \/ ConsumerCache \/ ConsumerResult \/ ConsumerPublish
    \/ ConsumerRaises

\* the same with the Result Consumer handling result messages for the job
SpecWithConsumer == Init /\ [][NextWithConsumer]_vars

NextWithStreams ==
    \/ Next
    \/ \E i \in Subscribers : StreamOpen(i) \/ StreamReceive(i)

\* the worker with clients following the job over live-update streams
SpecWithStreams == Init /\ [][NextWithStreams]_vars

NextEnqueue ==
    \/ EnqueueValidate \/ EnqueueUpload \/ EnqueueTranscript \/ EnqueueJob
    \/ EnqueueCache \/ EnqueueJobToArq \/ EnqueueRaises

\* POST /transcribe handling one request
SpecEnqueue == InitEnqueue /\ [][NextEnqueue]_vars

NextEnqueueWithConsumer ==
    \/ NextEnqueue
    \/ ConsumerReceive \/ ConsumerCache \/ ConsumerResult \/ ConsumerPublish
    \/ ConsumerRaises

NextResultStream ==
    \/ ConsumerReceiveAny \/ ConsumerCache \/ ConsumerResult \/ ConsumerPublish
    \/ ConsumerRaises

\* the Result Consumer alone, handling the completion messages of a job
\* that an engine worker of the result stream transcribes
SpecResultStream == Init /\ [][NextResultStream]_vars

\* result messages naming the ids of a request arrive while and after the
\* request is handled, whether or not its rows have been created
SpecEnqueueWithConsumer == InitEnqueue /\ [][NextEnqueueWithConsumer]_vars

\* the worker on a job whose engine call may time out or answer with a
\* response that does not parse
SpecEngineFaults == InitEngineFaults /\ [][Next]_vars

NextPool == \E j \in PoolJobs : PoolStart(j) \/ PoolFinish(j)

\* one worker of the pool taking jobs off the shared queue
SpecPool == Init /\ [][NextPool]_vars

\* the word boosting of a transcription by the Riva engine
SpecWordBoosting == InitWordBoosting /\ [][TranscribeAudioFile]_vars

NextSubscription ==
    \/ SubscribeStart \/ SubscribeListen \/ SubscribeResume \/ SubscribeFinally
    \/ \E status \in {"processing"} \cup Terminal : SubscribePublished(status)

\* one subscription to the channel of a job and what is published on it
SpecBothAttempts == InitBothAttempts /\ [][BothAttempts]_vars

SpecSubscription == InitSubscription /\ [][NextSubscription]_vars

\* the post-processing of the segments of a Riva response
SpecRivaResponse == InitRivaResponse /\ [][ProcessRivaResponse]_vars

\* the worker on a work item naming any engine
SpecWorkItems == InitWorkItems /\ [][Next]_vars

\* the worker on a job whose audio holds any of the lists of segments
SpecWithSegments == InitSegments /\ [][Next]_vars

TypeOK ==
    /\ impl \in Impls
    /\ queue \in {"queued", "running", "retry", "finished"}
    /\ job_try \in 0..max_tries
    /\ pc \in {"idle"} \cup StepLabels \cup HandlerLabels \cup EndLabels
    /\ tempFiles \in 0..max_tries
    /\ dlAttempt \in 0..(AUDIO_DOWNLOAD_MAX_RETRIES - 1)
    /\ outcomes.last \in {"none", "ok", "error", "timeout"}
    /\ consumed \in 0..MaxResultMsgs

(* ------------------------------ properties ----------------------------- *)
\* C1: once the committed Transcript status is completed or failed, no step
\* changes it to another status.
TerminalStatusFinal ==
    [][db.status \in {"completed", "failed"} => db'.status = db.status]_vars

\* C2: the attempts of the job, committed or flushed in the running
\* attempt's session, never exceed max_retries + 1, whatever the deliveries.
AttemptsBounded ==
    /\ db.attempts <= max_retries + 1
    /\ View(db, pend).attempts <= max_retries + 1

\* the job has been delivered as often as the queue allows, after failures
\* and timeouts
AttemptsBoundedWitness ==
    /\ job_try = max_tries
    /\ db.attempts = max_tries
    /\ outcomes.last = "timeout"

\* C3: in the committed rows a Transcript that is completed stands next to a
\* job whose completed_at is set, whoever committed the completion.
CompletedHasCompletedAt ==
    db.status = "completed" => db.completed_at = "set"

\* the Result Consumer has committed a completion before any attempt ran
CompletedHasCompletedAtWitness ==
    /\ db.status = "completed"
    /\ cpc = "cache"
    /\ cmsg.status = "completed"
    /\ job_try = 0

\* C4: a job that is terminal (off the queue, no attempt in flight) has
\* completed_at set and a Transcript that is completed or failed.
TerminalJobSettled ==
    (queue = "finished" /\ pc = "idle") =>
        (db.completed_at = "set" /\ db.status \in {"completed", "failed"})

\* C5: an attempt has written to the cache or published the status of a step
\* (Initialize, Complete, failure handler) only after it made that step's
\* commit.
CommitBeforeCacheAndPublish == att.shown \subseteq att.committed

IsPrefix(s, t) == Len(s) <= Len(t) /\ \A k \in 1..Len(s) : s[k] = t[k]

\* the steps entered are the first ones of the pipeline, in its order
InPipelineOrder(s) == IsPrefix(s, Pipeline)

\* the same, with the failure handler entered once after them
HandledOnce(s) ==
    /\ Len(s) >= 2
    /\ s[Len(s)] = "handle_failure"
    /\ InPipelineOrder(SubSeq(s, 1, Len(s) - 1))

\* C6: the steps an attempt has entered are Initialize, Download, Transcribe,
\* Persist, Complete in that order, each entered from the last await of the
\* one before; once a step has raised, the attempt is in the failure handler
\* or has left it, no further step is entered and the handler was entered
\* exactly once.
StepsInOrder ==
    /\ pc \in StepLabels =>
          /\ InPipelineOrder(steps)
          /\ steps # <<>>
          /\ steps[Len(steps)] = StepOf(pc)
          /\ err = "none"
    /\ pc = "returned" => steps = Pipeline /\ err = "none"
    /\ pc \in HandlerLabels \cup {"raised"} => HandledOnce(steps) /\ err # "none"
    /\ err # "none" => pc \in HandlerLabels \cup {"raised", "cancelled"}
    /\ pc = "cancelled" => InPipelineOrder(steps) \/ HandledOnce(steps)

\* Persist has raised after the four steps before it ran in order, and the
\* handler has run to its end
StepsInOrderWitness ==
    /\ pc = "raised"
    /\ att.handled = "done"
    /\ steps = <<"initialize", "download", "transcribe", "persist", "handle_failure">>

\* what the failure handler is to leave behind for the exception err
FailureRecorded ==
    /\ db.status = "failed"
    /\ db.error_message = err
    /\ db.error_details = ErrorDetails(err)
    /\ db.completed_at = "set"
    /\ cache.present
    /\ cache.status = "failed"
    /\ cache.error = err
    /\ channel = Event("failed", err)

ThirdDeliverySucceeds ==
    (pc = "returned" /\ job_try = 3 /\ outcomes.clean) =>
        /\ db.status = "completed"
        /\ db.attempts = 3
        /\ cache.present
        /\ cache.status = "completed"

\* the third delivery has returned after two engine failures, the second of
\* which the handler recorded
ThirdDeliverySucceedsWitness ==
    /\ pc = "returned"
    /\ job_try = 3
    /\ outcomes.clean
    /\ db.error_message = "engine"
    /\ db.status = "completed"

\* C9: a job whose deliveries are used up, the last attempt like the ones
\* before it ended by an exception or by the job timeout, has a failed
\* Transcript and completed_at set.
ExhaustedJobFailed ==
    (queue = "finished" /\ pc = "idle" /\ job_try = max_tries
        /\ outcomes.last \in {"error", "timeout"}) =>
        (db.status = "failed" /\ db.completed_at = "set")

\* C11: Download gives up on a key that no storage call failed on only
\* after AUDIO_DOWNLOAD_MAX_RETRIES passes found it missing; found present
\* on any earlier pass, the audio is returned and the attempt goes on to
\* Transcribe.
DownloadToleratesLateUpload ==
    (pc \in HandlerLabels \cup {"raised"} /\ att.passes > 0 /\ ~att.fault) =>
        att.passes = AUDIO_DOWNLOAD_MAX_RETRIES

\* C10: a temporary audio file of the job exists only while the attempt is
\* inside the block that created it.
TempFileReleased == tempFiles > 0 => pc \in TempScope(impl)

\* C12: while an attempt is between its Initialize and its Complete, a
\* status read that misses the cache returns the status the cache entry
\* returns.
StatusFallbackAgrees ==
    pc \in DownloadLabels \cup TranscribeLabels \cup PersistLabels =>
        get_job_status(NoEntry, db).status = get_job_status(cache, db).status

\* C13: once the job is off the queue with its terminal message the last one
\* published, no stream is left listening on a connection with nothing to
\* receive: a stream opened after the job ended learns the terminal status
\* and ends.
NoStreamWaitsOnFinishedJob ==
    (queue = "finished" /\ pc = "idle" /\ channel.status \in Terminal
        /\ db.status = channel.status) =>
        \A i \in Subscribers :
            subs[i].state = "listening" => subs[i].pending # NoEvent

\* the step publishes a terminal message: publish_completed at the end of
\* Complete or publish_failed at the end of the failure handler
TerminalPublish ==
    \/ pc = "cmp_pub" /\ pc' = "returned"
    \/ pc = "h_pub" /\ pc' = "raised" /\ att'.handled = "done"

\* C14: every stream that is subscribed, with no terminal message waiting,
\* when a terminal message is published has exactly that message waiting
\* afterwards; a waiting message stays until the stream passes it to its
\* client, which it does once, ending the subscription; an ended stream
\* receives nothing more.
EachSubscriberOnce ==
    [][\A i \in Subscribers :
         /\ (TerminalPublish /\ subs[i].state = "listening" /\ subs[i].pending = NoEvent)
               => subs'[i] = [subs[i] EXCEPT !.pending = channel']
         /\ (subs[i].state = "listening" /\ subs[i].pending # NoEvent)
               => \/ subs'[i] = subs[i]
                  \/ subs'[i] = [state |-> "ended", pending |-> NoEvent,
                                got |-> subs[i].pending]
         /\ (subs'[i].state = "ended" /\ subs[i].state # "ended")
               => subs[i].state = "listening" /\ subs[i].pending.status \in Terminal
         /\ subs[i].state = "ended" => subs'[i] = subs[i]
      ]_vars

\* two streams, both subscribed when Complete published, have each passed
\* the completed message on and ended
EachSubscriberOnceWitness ==
    /\ \A i \in Subscribers : subs[i].state = "ended"
    /\ subs[1].got = Event("completed", json_dumps(result_data(transcribe(SampleSegments))))
    /\ subs[2].got = subs[1].got

\* what the claim compares of the Transcript row
Observable(d) ==
    [segments |-> d.segments, status |-> d.status, error |-> d.error_message]

UnsupportedEngineRejected ==
    engine \notin TranscriptionEngine =>
        /\ ~enq.uploaded
        /\ db.status = "absent"
        /\ db.worker_id = "absent"
        /\ cache = NoEntry
        /\ queue = "none"
        /\ enq.pc \notin {"upload", "transcript", "job", "cache", "queue"}
        /\ enq.pc = "done" => enq.response = "400"

\* a request that is in order but for its engine has been answered
UnsupportedEngineRejectedWitness ==
    /\ engine = "foo"
    /\ enq.req = AcceptedRequest
    /\ enq.pc = "done"
    /\ enq.response = "400"


\* C18: for a work item naming an engine other than asr and whisperx the
\* cache entry is never written, nothing is published, no attempt enters
\* Download or Transcribe, and the item is delivered once at most.
UnsupportedWorkItemFailsFast ==
    engine \notin TranscriptionEngine =>
        /\ cache.present => cache = create_job
        /\ channel = NoEvent
        /\ steps \in {<<>>, <<"initialize">>}
        /\ job_try <= 1


RedeliveredOnlyIfRetryable ==
    [][/\ (job_try >= 2 /\ pc = "init_incr" /\ pc' = "init_commit") => retryable(db)
       /\ db'.attempts <= max_retries]_vars


\* C21: when the queue takes back an attempt that raised the engine's
\* exception, it schedules a redelivery if the engine call timed out and
\* tries remain, and finishes the job if the response was malformed.
EngineFaultsTreatedApart ==
    [][(pc = "raised" /\ pc' = "idle" /\ err = "engine") =>
          IF engineFault = "malformed" THEN queue' = "finished"
          ELSE job_try < max_tries => queue' = "retry"]_vars


\* the error message a status answer carries: the error field of the cache
\* entry, or the error inside error_details
MessageOf(r) == IF r.source = "cache" THEN r.error ELSE r.error_details.error

\* C22: once the queue is done with a job whose Transcript is failed, the
\* status answer served from the cache entry, and the one served from the
\* rows when the entry has expired, both say failed and carry the error
\* message and the attempts of the job.
FailedJobStatusComplete ==
    (queue = "finished" /\ pc = "idle" /\ db.status = "failed") =>
        \A c \in {cache, NoEntry} :
            LET r == get_job_status(c, db) IN
            /\ r.status = "failed"
            /\ MessageOf(r) = db.error_message
            /\ "attempts" \in DOMAIN r
            /\ r.attempts = db.attempts


ConsumerLeavesWhatWorkerLeaves ==
    (cmsg.status = "returned" /\ cache.present /\ cache.status \in Terminal) =>
        LET payload == json_dumps(result_data(transcribe(SampleSegments))) IN
        IF db.status = "completed"
        THEN /\ db.segments = segments_dict(SampleSegments)
             /\ db.completed_at = "set"
             /\ cache = update_job_status(cache, "completed", "100", payload, "keep")
             /\ channel = Event("completed", payload)
        ELSE /\ db.status = "failed"
             /\ db.completed_at = "set"
             /\ db.error_details = ErrorDetails(db.error_message)
             /\ cache = update_job_status(cache, "failed", "keep", "keep", db.error_message)
             /\ channel = Event("failed", db.error_message)


\* C25: the status key and the result key of the job, whenever they exist,
\* have an expiry, the configured TTL set by the write that last stored
\* them.
CacheKeysExpire ==
    /\ cache.present => cache.ttl = default_ttl
    /\ cacheResult.value # "unset" => cacheResult.ttl = default_ttl
    /\ cache.ttl # NoExpiry
    /\ cacheResult.ttl # NoExpiry

\* the entry created at enqueue has been rewritten by the updates of an
\* attempt up to completed, and the result has been stored
CacheKeysExpireWitness ==
    /\ cache.status = "completed"
    /\ cache.ttl = default_ttl
    /\ cacheResult.value = json_dumps(result_data(transcribe(SampleSegments)))
    /\ cacheResult.ttl = default_ttl


\* C26: the worker never runs more than one job at the same time.
OneJobPerWorker == Cardinality(Running) <= 1

\* C27: when every segment built from the response has start = end = 0, the
\* segments process_riva_response returns are as many, each starts after
\* the end of the one before it, each lasts at least one second, and each
\* keeps its text, speaker tag and confidence.
ZeroTimestampsRegenerated ==
    (call.op = "process_riva_response" /\ call.done /\ all_zero(call.arg)) =>
        /\ Len(call.ret) = Len(call.arg)
        /\ \A i \in 1..Len(call.ret) :
            /\ call.ret[i].text = call.arg[i].text
            /\ call.ret[i].speaker_tag = call.arg[i].speaker_tag
            /\ call.ret[i].confidence = call.arg[i].confidence
            /\ ~Less(call.ret[i].end, ExactAdd(call.ret[i].start, FromNat(1)))
            /\ i > 1 => Less(call.ret[i - 1].end, call.ret[i].start)

\* the category a term of the configuration came from
CategoryOf(items, term) ==
    CHOOSE i \in 1..Len(items) :
        /\ items[i].data.type = "dict"
        /\ "terms" \in DOMAIN items[i].data.value
        /\ \E k \in 1..Len(items[i].data.value.terms) : items[i].data.value.terms[k] = term

\* C28: the terms and the scores loaded for a context are equally many, and
\* the i-th score is the boost_score of the category the i-th term came
\* from; without a context id, with an unknown context or with an empty
\* configuration both are empty, and in each case the engine is called,
\* without boosted words.
BoostingTermsAndScores ==
    (call.op = "transcribe_audio_file" /\ call.done) =>
        LET items == call.arg.context.word_boosting_config
            loaded == call.ret.loaded
        IN  /\ Len(loaded.terms) = Len(loaded.scores)
            /\ call.ret.load =>
                   \A i \in 1..Len(loaded.terms) :
                       LET data == items[CategoryOf(items, loaded.terms[i])].data.value
                       IN  "boost_score" \in DOMAIN data => loaded.scores[i] = data.boost_score
            /\ (call.arg.context_id = "None" \/ ~call.arg.context.found \/ Len(items) = 0) =>
                   /\ Len(loaded.terms) = 0
                   /\ Len(loaded.scores) = 0
                   /\ Len(call.ret.boosted_lm_words) = 0
                   /\ Len(call.ret.boosted_lm_scores) = 0
            /\ call.ret.recognized

\* two terms of one category and one of the other were loaded, each with
\* the score of its category
BoostingTermsAndScoresWitness ==
    /\ call.op = "transcribe_audio_file"
    /\ call.done
    /\ call.ret.boosted_lm_words = <<"aspirin", "ibuprofen", "biopsy">>
    /\ call.ret.boosted_lm_scores = <<40, 40, 45>>

\* C29: on every delivery, when Download makes its first call of the Object
\* Store, the committed rows carry the worker's id and one attempt more
\* than when the attempt began, and the cache entry and the committed
\* Transcript both read processing.
DownloadSeesAttemptClaimed ==
    (pc \in {"dl_check", "dl_read"} /\ dlAttempt = 0) =>
        /\ db.worker_id = WorkerId
        /\ db.attempts = att.before + 1
        /\ cache.present /\ cache.status = "processing"
        /\ db.status = "processing"

\* C30: once Complete has succeeded and the attempt has returned, the job
\* has completed_at set, the cache entry reads completed with progress 100
\* and the transcript id, the number of segments and the duration as its
\* result, and the attempt has published one completed message.
CompleteLeavesCompleted ==
    pc = "returned" =>
        /\ db.completed_at = "set"
        /\ cache.present
        /\ cache.status = "completed"
        /\ cache.progress = "100"
        /\ cache.result = json_dumps([transcript_id |-> "uuid",
                                      segments_count |-> Len(result.segments),
                                      duration |-> result.duration])
        /\ Cardinality({ k \in 1..Len(att.published) : att.published[k] = "completed" }) = 1

\* a redelivered attempt has gone through Complete and returned
CompleteLeavesCompletedWitness ==
    /\ pc = "returned"
    /\ job_try = 2
    /\ "complete" \in att.committed
    /\ att.published[Len(att.published)] = "completed"
    /\ channel.status = "completed"

\* C31: whenever a completion is persisted and committed, the segments, the
\* duration and the speaker-role map of the committed Transcript are those
\* of the result persisted, also when the result has no duration or no
\* map.
PersistReplacesAll ==
    [][(consumed' = consumed + 1 /\ cmsg'.status = "completed") =>
          /\ db'.status = "completed"
          /\ db'.segments = cmsg'.res.segments
          /\ db'.duration = cmsg'.res.duration
          /\ db'.speaker_roles = cmsg'.res.speaker_roles]_vars

\* C32: whenever Download has given up, it has made
\* AUDIO_DOWNLOAD_MAX_RETRIES passes, with a sleep between each two and none
\* after the last.
DownloadGivesUpAfterBound ==
    (pc \in HandlerLabels \cup {"raised"} /\ att.passes > 0) =>
        /\ att.passes = AUDIO_DOWNLOAD_MAX_RETRIES
        /\ att.sleeps = AUDIO_DOWNLOAD_MAX_RETRIES - 1

\* the messages up to and including the first completed or failed one
UpToTerminal(msgs) ==
    IF \E k \in 1..Len(msgs) : msgs[k].status \in Terminal
    THEN SubSeq(msgs, 1, CHOOSE k \in 1..Len(msgs) :
                             /\ msgs[k].status \in Terminal
                             /\ \A j \in 1..(k - 1) : msgs[j].status \notin Terminal)
    ELSE msgs

\* what was published on the channel since the subscription, parsed
PublishedSince ==
    [k \in 1..Len(PublishedOn(call.ret.feed)) |-> json_loads(PublishedOn(call.ret.feed)[k].data)]

\* C33: what a subscription has yielded is, in order, what was published
\* since it was established, up to and including the first completed or
\* failed message and nothing behind it; a subscription that ended on such
\* a message has yielded all of that; and every subscription that has
\* ended has called unsubscribe and close, also when the consumer closed it
\* early or a call raised.
SubscriptionYieldsAndCloses ==
    call.op = "subscribe_to_job" =>
        /\ IsPrefix(call.ret.yielded, UpToTerminal(PublishedSince))
        /\ call.ret.ended = "break" => call.ret.yielded = UpToTerminal(PublishedSince)
        /\ call.ret.pc = "done" => call.ret.unsubscribe /\ call.ret.close

\* C34: once a completed or failed message has been published on the
\* channel of the job, no message of another status is published on it.
TerminalEventFinal ==
    [][channel.status \in Terminal => channel'.status = channel.status]_vars

\* C35: when an attempt has completed the job, the cache entry carries no
\* error and the rows carry neither an error message nor error details,
\* whatever earlier attempts did.
CompletedReportsNoError ==
    pc = "returned" =>
        /\ cache.present => cache.error = "unset"
        /\ db.error_message = "null"
        /\ db.error_details = NullDetails


\* C36: after a step failure the attempt does not return normally, and the
\* exception that reaches the queue is the exception of the failed step,
\* also when a write of the failure handler itself raised.
StepExceptionReachesQueue ==
    /\ pc = "returned" => err = "none"
    /\ pc = "raised" => err # "none" /\ att.raised = err


\* C37: when an attempt of the worker and the Result Consumer's handling of a
\* message for the same job have interleaved in any way and both have
\* finished with every write they make done (the attempt returned or raised
\* after its failure handler ran to its end, the consumer returned after its
\* publish), the status of the cache entry is the Transcript's status.
BothFinished ==
    /\ \/ pc = "returned"
       \/ pc = "raised" /\ att.handled = "done"
    /\ cpc = "idle"
    /\ cmsg.status = "returned"

CacheAgreesAfterBoth ==
    (BothFinished /\ cache.present) => cache.status = db.status


\* C38: run on the same job with the same outcomes of their storage, engine,
\* database, cache and publish calls, process_transcription_job and
\* TranscriptionJobProcessor.process make the same writes in the same order
\* and end the same way, with the same exception when they raise.
ImplementationsAgree ==
    (call.op = "attempt" /\ call.done) => call.ret["inline"] = call.ret["processor"]


\* C39: when the Result Consumer drops a message because the transcript or
\* the job it names is unknown, the handler has returned with no await of it
\* left, and the rows, the writes of the worker's session, both cache keys,
\* the channel and what the open streams were sent are as they were (the
\* rows are compared as written out, an absent row having no fields).
DropChangesNothing ==
    [][(consumed' = consumed + 1 /\ cmsg'.status = "dropped")
        => /\ cpc' = "idle"
           /\ ToString(db') = ToString(db)
           /\ UNCHANGED <<pend, cache, cacheResult, channel, subs>>]_consumed

\* a message was dropped before the request that creates the transcript
\* had written anything: no rows, no cache key, no event
DropChangesNothingWitness ==
    /\ cmsg.status = "dropped"
    /\ cmsg.transcript_id = "uuid"
    /\ consumed = 1
    /\ db = NoRows
    /\ ~cache.present
    /\ channel = NoEvent

====
